---- MODULE Spec2Model ----
(***************************************************************************)
(* The session store of src/src/store/authStore.ts: a zustand store        *)
(* wrapped in the persist middleware (slot 'auth-storage', JSON in         *)
(* localStorage).  Every set() of the store applies the partial state and  *)
(* then serialises partialize(state) into the slot.  JavaScript runs each  *)
(* store action to completion, so the only states of login/register that   *)
(* a subscriber sees lie between their two set() calls.                    *)
(***************************************************************************)
EXTENDS Integers, Sequences, FiniteSets, TLC

VARIABLES
  user,             \* AuthState.user: Null or a User object
  isAuthenticated,  \* AuthState.isAuthenticated
  isLoading,        \* AuthState.isLoading
  token,            \* AuthState.token: Null or a string
  storage,          \* the localStorage slot 'auth-storage'
  faulty,           \* TRUE when localStorage.setItem may throw (quota)
  pc,               \* position of the running store action
  args,             \* arguments of the last call
  pre,              \* the store's state when the last call began
  result,           \* how the last call settled, and the error it threw
  callWrites,       \* slot writes made by the last call so far
  lastOp,           \* the store action that took the last step
  prevOp,           \* the store action called before lastOp
  promise,          \* the promise of login/register its caller still awaits
  clock,            \* Date.now()
  formData,         \* LoginPage: the email and password typed into the form
  errors,           \* LoginPage: the messages shown under the form
  isSubmitting,     \* LoginPage: handleSubmit is awaiting login
  authTokenItem,    \* the localStorage item 'auth-token'
  requestHeaders,   \* headers of the last request apiClient sent
  location,         \* the router's location.pathname
  conversations,    \* Dashboard: the chat threads, newest first
  activeConversationId, \* Dashboard: id of the thread on screen
  inputMessage,     \* Dashboard: text in the message box
  isTyping,         \* Dashboard: the assistant is shown as typing
  hybridRequest,    \* Dashboard: the submitHybridInput call awaited, if any
  portfolio,        \* PortfolioPage: Null or the portfolio last fetched
  pageLoading,      \* PortfolioPage: the loading flag
  pageError,        \* PortfolioPage: Null or the error message shown
  transactionSuccess, \* PortfolioPage: Null or the success message shown
  showBuyForm,      \* PortfolioPage: the buy modal is open
  showSellForm,     \* PortfolioPage: the sell modal is open
  portfolioCalls,   \* PortfolioPage: service calls in flight, by kind
  topHoldings,      \* PortfolioCharts: ids of the Top Holdings rows rendered
  performanceBars   \* PortfolioCharts: ids of the Performance bars rendered

storeVars == <<user, isAuthenticated, isLoading, token, storage, faulty, pc, args,
               pre, result, callWrites, lastOp, prevOp, promise, clock>>

loginPageVars == <<formData, errors, isSubmitting>>

apiVars == <<authTokenItem, requestHeaders>>

\* the state of the components around the store
routerVars == <<location>>

dashboardVars == <<conversations, activeConversationId, inputMessage, isTyping,
                   hybridRequest>>

portfolioVars == <<portfolio, pageLoading, pageError, transactionSuccess, showBuyForm,
                   showSellForm, portfolioCalls>>

chartsVars == <<topHoldings, performanceBars>>

pageVars == <<loginPageVars, apiVars, routerVars, dashboardVars, portfolioVars,
              chartsVars>>

\* what a handler of one component leaves alone in the others
othersThanLoginPage == <<apiVars, dashboardVars, portfolioVars, chartsVars>>
othersThanApi ==
  <<loginPageVars, routerVars, dashboardVars, portfolioVars, chartsVars>>
othersThanRouter ==
  <<loginPageVars, apiVars, dashboardVars, portfolioVars, chartsVars>>
othersThanDashboard ==
  <<loginPageVars, apiVars, routerVars, portfolioVars, chartsVars>>
othersThanPortfolio ==
  <<loginPageVars, apiVars, routerVars, dashboardVars, chartsVars>>
othersThanCharts == <<loginPageVars, apiVars, routerVars, dashboardVars>>

vars == <<storeVars, pageVars>>

(***************************************************************************)
(* Bounds                                                                  *)
(***************************************************************************)
Epoch == 10
MaxTicks == 1
MaxEmailLen == 3
MaxMessages == 4
MaxConversations == 2
MaxCalls == 2
MaxHoldings == 3

(***************************************************************************)
(* JavaScript values.  A string is a sequence of characters.               *)
(***************************************************************************)
Undefined == [t |-> "undefined"]
Null == [t |-> "null"]
Str(s) == [t |-> "string", v |-> s]

IsString(x) == x.t = "string"

UserKeys == {"id", "email", "name", "avatar", "createdAt", "investmentProfile"}

Num(n) == [t |-> "number", v |-> n]

Profile(risk) ==
  [t |-> "object",
   totalInvested |-> Num(0),
   totalReturns |-> Num(0),
   riskTolerance |-> Str(risk),
   preferredSectors |-> [t |-> "array", v |-> <<>>]]

MockToken == Str(<<"m", "o", "c", "k", "-", "j", "w", "t", "-", "t", "o", "k", "e", "n">>)

Digits == <<"0", "1", "2", "3", "4", "5", "6", "7", "8", "9">>

RECURSIVE NumberToString(_)
NumberToString(n) ==
  IF n < 10 THEN <<Digits[n + 1]>>
  ELSE NumberToString(n \div 10) \o <<Digits[(n % 10) + 1]>>

toISOString(ms) == Str(<<"T">> \o NumberToString(ms))

RECURSIVE IndexOf(_, _, _)
IndexOf(s, c, i) ==
  IF i > Len(s) THEN 0
  ELSE IF s[i] = c THEN i
  ELSE IndexOf(s, c, i + 1)

SplitFirst(s, c) ==
  LET i == IndexOf(s, c, 1)
  IN IF i = 0 THEN s ELSE SubSeq(s, 1, i - 1)

(***************************************************************************)
(* Inputs                                                                  *)
(***************************************************************************)
EmailA == Str(<<"a", "@", "x">>)
EmailB == Str(<<"b", "o", "b">>)
Emails == {EmailA, EmailB}
EmailEmpty == Str(<<>>)

NameSam == Str(<<"S", "a", "m">>)

FormObject(n, e) == [t |-> "object", name |-> n, email |-> e]

\* where writes may fail the inputs are narrowed to one call of each kind
LoginArgs ==
  IF faulty THEN {EmailA, Undefined} ELSE Emails \cup {EmailEmpty, Undefined}

RegisterArgs ==
  IF faulty
  THEN {[name |-> NameSam, email |-> EmailB]}
  ELSE {[name |-> NameSam, email |-> e] : e \in Emails}
         \cup {[name |-> FormObject(NameSam, e), email |-> Undefined] : e \in {EmailA}}

(***************************************************************************)
(* The persisted snapshot: partialize, JSON.stringify, JSON.parse          *)
(***************************************************************************)
State(u, a, l, t) == [user |-> u, isAuthenticated |-> a, isLoading |-> l, token |-> t]

get == State(user, isAuthenticated, isLoading, token)

initialState == State(Null, FALSE, FALSE, Null)

\* partialize that keeps the whole state
partializeAll(state) == state

partialize(state) ==
  [user |-> state.user,
   isAuthenticated |-> state.isAuthenticated,
   token |-> state.token]

\* JSON.stringify leaves out the keys whose value is undefined
stringifyUser(u) ==
  IF u = Null THEN Null
  ELSE [k \in {key \in UserKeys : u[key] # Undefined} |-> u[k]]

\* a key that is missing from the parsed object reads as undefined
parseUser(j) ==
  IF j = Null THEN Null
  ELSE [k \in UserKeys |-> IF k \in DOMAIN j THEN j[k] ELSE Undefined]

stringify(p) ==
  [kind |-> "json",
   value |-> [state |-> [k \in DOMAIN p |->
                           IF k = "user" THEN stringifyUser(p[k]) ELSE p[k]],
              version |-> 0]]

Absent == [kind |-> "absent"]
Malformed == [kind |-> "malformed"]

\* what a successful setItem() leaves in the slot
setItem(state) == stringify(partialize(state))

\* merge with the spread order swapped: the current state wins
mergeCurrentWins(persistedState, currentState) == currentState

\* options.merge: { ...currentState, ...persistedState }
merge(persistedState, currentState) ==
  [k \in DOMAIN currentState |->
     IF k \in DOMAIN persistedState
     THEN IF k = "user" THEN parseUser(persistedState[k]) ELSE persistedState[k]
     ELSE currentState[k]]

\* a hydration that is left loading when the slot cannot be parsed
hydrateLoadingOnError(slot) ==
  IF slot.kind = "json" /\ slot.value.version = 0
  THEN merge(slot.value.state, initialState)
  ELSE IF slot.kind = "malformed"
       THEN State(Null, FALSE, TRUE, Null)
       ELSE initialState

\* the state of a store created over the slot; a missing key and a
\* JSON.parse error both leave the initial state
hydrate(slot) ==
  IF slot.kind = "json" /\ slot.value.version = 0
  THEN merge(slot.value.state, initialState)
  ELSE initialState

\* hydrate() ends with setItem() unless getItem threw
hydrateWrites(slot) == slot.kind # "malformed"

\* what getItem found when the store was created
SlotRead(slot) == [t |-> "slot", kind |-> slot.kind]

WriteOutcomes == IF faulty THEN {TRUE, FALSE} ELSE {TRUE}

NoResult == [status |-> "none", error |-> "none"]
Rejected(e) == [status |-> "rejected", error |-> e]
Fulfilled == [status |-> "fulfilled", error |-> "none"]
Pending == [status |-> "pending", error |-> "none"]

\* the promise an async action returned: whose it is and how it settled
NoPromise == [op |-> "none"]
Promise(op, a, status) == [op |-> op, args |-> a, status |-> status]

InitWith(f) ==
  /\ faulty = f
  /\ clock = Epoch
  /\ pc = "idle"
  /\ result = NoResult
  /\ callWrites = 0
  /\ lastOp = "create"
  /\ prevOp = "none"
  /\ promise = NoPromise
  /\ pre = initialState
  /\ \E slot \in {Absent, Malformed} :
       LET h == hydrate(slot)
       IN /\ args = SlotRead(slot)
          /\ user = h.user
          /\ isAuthenticated = h.isAuthenticated
          /\ isLoading = h.isLoading
          /\ token = h.token
          /\ \E ok \in WriteOutcomes :
               storage = IF hydrateWrites(slot) /\ ok THEN setItem(h) ELSE slot

(***************************************************************************)
(* LoginPage (src/frontend/src/pages/LoginPage.tsx): form state            *)
(***************************************************************************)
\* FormErrors: a field that is absent or undefined shows no message
NoErrors == [email |-> Undefined, password |-> Undefined, general |-> Undefined]

LoginPageInit ==
  /\ formData = [email |-> Str(<<>>), password |-> Str(<<>>)]
  /\ errors = NoErrors
  /\ isSubmitting = FALSE

(***************************************************************************)
(* apiClient (src/frontend/src/services/marketService.ts)                  *)
(***************************************************************************)
NoRequest == [t |-> "none"]

\* no code of the application writes the item 'auth-token'
ApiInit ==
  /\ authTokenItem = Null
  /\ requestHeaders = NoRequest

\* every component as it is when first mounted
(***************************************************************************)
(* Dashboard (src/frontend/src/pages/Dashboard.tsx): chat state            *)
(***************************************************************************)
ChatMessage(sender, content) == [sender |-> sender, content |-> content]

NoHybridRequest == [t |-> "none"]

DashboardInit ==
  /\ conversations =
       <<[id |-> Str(<<"1">>), messages |-> <<ChatMessage("assistant", "welcome")>>]>>
  /\ activeConversationId = Str(<<"1">>)
  /\ inputMessage = <<>>
  /\ isTyping = FALSE
  /\ hybridRequest = NoHybridRequest

(***************************************************************************)
(* PortfolioPage (src/frontend/src/pages/PortfolioPage.tsx)                *)
(***************************************************************************)
CallKinds ==
  {"getUserPortfolio", "buyStock", "sellStock", "updatePortfolioValue",
   "awaitedGetUserPortfolio"}

NoCalls == [k \in CallKinds |-> 0]

\* the page once mounted: loading starts true and the mount effect has
\* called fetchPortfolio()
PortfolioInit ==
  /\ portfolio = Null
  /\ pageLoading = TRUE
  /\ pageError = Null
  /\ transactionSuccess = Null
  /\ showBuyForm = FALSE
  /\ showSellForm = FALSE
  /\ portfolioCalls = [NoCalls EXCEPT !["getUserPortfolio"] = 1]

\* PortfolioCharts has rendered nothing yet
ChartsInit ==
  /\ topHoldings = <<>>
  /\ performanceBars = <<>>

PagesInit ==
  /\ LoginPageInit /\ ApiInit /\ location = "/" /\ DashboardInit
  /\ PortfolioInit /\ ChartsInit

Init == InitWith(FALSE) /\ PagesInit

(***************************************************************************)
(* set(partial): Object.assign({}, state, partial) becomes the state       *)
(***************************************************************************)
assign(state, partial) ==
  [k \in DOMAIN state |-> IF k \in DOMAIN partial THEN partial[k] ELSE state[k]]

setState(state) ==
  /\ user' = state.user
  /\ isAuthenticated' = state.isAuthenticated
  /\ isLoading' = state.isLoading
  /\ token' = state.token

\* a store action is called: the caller's view of it starts afresh
Called(op) ==
  /\ pre' = get
  /\ prevOp' = lastOp
  /\ lastOp' = op

(***************************************************************************)
(* login                                                                   *)
(***************************************************************************)
\* login whose first set() already raises isAuthenticated
loginEarlyAuth(email) ==
  /\ pc = "idle"
  /\ promise = NoPromise
  /\ Called("login")
  /\ args' = email
  /\ LET next == assign(get, [isLoading |-> TRUE, isAuthenticated |-> TRUE])
     IN /\ setState(next)
        /\ storage' = setItem(next)
        /\ callWrites' = 1
        /\ pc' = "login"
        /\ result' = Pending
  /\ promise' = Promise("login", email, result'.status)
  /\ UNCHANGED <<faulty, clock>>

\* login whose first set() is not followed by a write
loginNoWrite(email) ==
  /\ pc = "idle"
  /\ promise = NoPromise
  /\ Called("login")
  /\ args' = email
  /\ setState(assign(get, [isLoading |-> TRUE]))
  /\ storage' = storage
  /\ callWrites' = 0
  /\ pc' = "login"
  /\ result' = Pending
  /\ promise' = Promise("login", email, result'.status)
  /\ UNCHANGED <<faulty, clock>>

\* the call up to and including set({ isLoading: true }); a write that
\* throws here is outside the try block and rejects the call
login(email) ==
  /\ pc = "idle"
  /\ promise = NoPromise
  /\ Called("login")
  /\ args' = email
  /\ LET next == assign(get, [isLoading |-> TRUE])
     IN /\ setState(next)
        /\ \E ok \in WriteOutcomes :
             IF ok
             THEN /\ storage' = setItem(next)
                  /\ callWrites' = 1
                  /\ pc' = "login"
                  /\ result' = Pending
             ELSE /\ storage' = storage
                  /\ callWrites' = 0
                  /\ pc' = "idle"
                  /\ result' = Rejected("QuotaExceededError")
  /\ promise' = Promise("login", email, result'.status)
  /\ UNCHANGED <<faulty, clock>>

\* a mock user named by the text before the last '@'
loginMockUserLastAt(email, now) ==
  LET ats == {k \in 1..Len(email.v) : email.v[k] = "@"}
      last == CHOOSE k \in ats : \A j \in ats : j <= k
  IN [id |-> Str(<<"1">>),
      email |-> email,
      name |-> Str(IF ats = {} THEN email.v ELSE SubSeq(email.v, 1, last - 1)),
      avatar |-> Undefined,
      createdAt |-> toISOString(now),
      investmentProfile |-> Profile("medium")]

\* a mock user whose email is cut at the '@' like its name
loginMockUserCutEmail(email, now) ==
  [id |-> Str(<<"1">>),
   email |-> Str(SplitFirst(email.v, "@")),
   name |-> Str(SplitFirst(email.v, "@")),
   avatar |-> Undefined,
   createdAt |-> toISOString(now),
   investmentProfile |-> Profile("medium")]

loginMockUser(email, now) ==
  [id |-> Str(<<"1">>),
   email |-> email,
   name |-> Str(SplitFirst(email.v, "@")),
   avatar |-> Undefined,
   createdAt |-> toISOString(now),
   investmentProfile |-> Profile("medium")]

\* a catch block that rethrows without set({ isLoading: false })
catchBlockNoReset(state, error) ==
  /\ setState(state)
  /\ storage' = storage
  /\ callWrites' = callWrites
  /\ result' = Rejected(error)

\* catch (error) { set({ isLoading: false }); throw error }, entered with
\* the store in the given state
catchBlock(state, error) ==
  LET next == assign(state, [isLoading |-> FALSE])
  IN /\ setState(next)
     /\ \E ok \in WriteOutcomes :
          IF ok
          THEN /\ storage' = setItem(next)
               /\ callWrites' = callWrites + 1
               /\ result' = Rejected(error)
          ELSE /\ storage' = storage
               /\ callWrites' = callWrites
               /\ result' = Rejected("QuotaExceededError")

\* a session whose user keeps the avatar of the user it replaces
setSessionKeepsAvatar(mockUser) ==
  LET kept == IF user = Null THEN mockUser
              ELSE [mockUser EXCEPT !.avatar = user.avatar]
      next == assign(get, [user |-> kept, isAuthenticated |-> TRUE,
                           token |-> MockToken, isLoading |-> FALSE])
  IN \E ok \in WriteOutcomes :
       IF ok
       THEN /\ setState(next)
            /\ storage' = setItem(next)
            /\ callWrites' = callWrites + 1
            /\ result' = Fulfilled
       ELSE catchBlock(next, "QuotaExceededError")

\* set({ user: mockUser, isAuthenticated: true, token: 'mock-jwt-token',
\* isLoading: false }) inside the try block
setSession(mockUser) ==
  LET next == assign(get, [user |-> mockUser, isAuthenticated |-> TRUE,
                           token |-> MockToken, isLoading |-> FALSE])
  IN \E ok \in WriteOutcomes :
       IF ok
       THEN /\ setState(next)
            /\ storage' = setItem(next)
            /\ callWrites' = callWrites + 1
            /\ result' = Fulfilled
       ELSE catchBlock(next, "QuotaExceededError")

\* a try/catch of login whose catch block also drops the session
loginTryDropsSession ==
  /\ pc = "login"
  /\ IF IsString(args)
     THEN setSession(loginMockUser(args, clock))
     ELSE catchBlock(State(Null, FALSE, FALSE, Null), "TypeError")
  /\ pc' = "idle"
  /\ promise' = Promise(promise.op, promise.args, result'.status)
  /\ UNCHANGED <<faulty, clock, pre, args, lastOp, prevOp>>

\* the try/catch of login; email.split throws when email is no string
loginTry ==
  /\ pc = "login"
  /\ IF IsString(args)
     THEN setSession(loginMockUser(args, clock))
     ELSE catchBlock(get, "TypeError")
  /\ pc' = "idle"
  /\ promise' = Promise(promise.op, promise.args, result'.status)
  /\ UNCHANGED <<faulty, clock, pre, args, lastOp, prevOp>>

(***************************************************************************)
(* register                                                                *)
(***************************************************************************)
\* register whose first set() is not followed by a write
registerNoWrite(name, email) ==
  /\ pc = "idle"
  /\ promise = NoPromise
  /\ Called("register")
  /\ args' = [name |-> name, email |-> email]
  /\ setState(assign(get, [isLoading |-> TRUE]))
  /\ storage' = storage
  /\ callWrites' = 0
  /\ pc' = "register"
  /\ result' = Pending
  /\ promise' = Promise("register", args', result'.status)
  /\ UNCHANGED <<faulty, clock>>

register(name, email) ==
  /\ pc = "idle"
  /\ promise = NoPromise
  /\ Called("register")
  /\ args' = [name |-> name, email |-> email]
  /\ LET next == assign(get, [isLoading |-> TRUE])
     IN /\ setState(next)
        /\ \E ok \in WriteOutcomes :
             IF ok
             THEN /\ storage' = setItem(next)
                  /\ callWrites' = 1
                  /\ pc' = "register"
                  /\ result' = Pending
             ELSE /\ storage' = storage
                  /\ callWrites' = 0
                  /\ pc' = "idle"
                  /\ result' = Rejected("QuotaExceededError")
  /\ promise' = Promise("register", args', result'.status)
  /\ UNCHANGED <<faulty, clock>>

registerMockUser(name, email, now) ==
  [id |-> Str(NumberToString(now)),
   email |-> email,
   name |-> name,
   avatar |-> Undefined,
   createdAt |-> toISOString(now),
   investmentProfile |-> Profile("medium")]

\* the try/catch of register; nothing in its try block throws but the write
registerTry ==
  /\ pc = "register"
  /\ setSession(registerMockUser(args.name, args.email, clock))
  /\ pc' = "idle"
  /\ promise' = Promise(promise.op, promise.args, result'.status)
  /\ UNCHANGED <<faulty, clock, pre, args, lastOp, prevOp>>

(***************************************************************************)
(* logout, updateUser, setLoading: one set(), then the write               *)
(***************************************************************************)
setAndPersist(next) ==
  /\ setState(next)
  /\ \E ok \in WriteOutcomes :
       IF ok
       THEN /\ storage' = setItem(next)
            /\ callWrites' = 1
            /\ result' = Fulfilled
       ELSE /\ storage' = storage
            /\ callWrites' = 0
            /\ result' = Rejected("QuotaExceededError")

\* logout that leaves isLoading as it is
logoutKeepsLoading ==
  /\ pc = "idle"
  /\ Called("logout")
  /\ args' = Undefined
  /\ setAndPersist(assign(get, [user |-> Null, isAuthenticated |-> FALSE,
                                token |-> Null]))
  /\ UNCHANGED <<faulty, clock, pc, promise>>

\* logout that clears the state in memory only
logoutNoPersist ==
  /\ pc = "idle"
  /\ Called("logout")
  /\ args' = Undefined
  /\ setState(assign(get, [user |-> Null, isAuthenticated |-> FALSE,
                           token |-> Null, isLoading |-> FALSE]))
  /\ storage' = storage
  /\ callWrites' = 0
  /\ result' = Fulfilled
  /\ UNCHANGED <<faulty, clock, pc, promise>>

\* logout that reads the user it signs out and throws when there is none
logoutStrict ==
  /\ pc = "idle"
  /\ Called("logout")
  /\ args' = Undefined
  /\ IF user = Null
     THEN /\ UNCHANGED <<user, isAuthenticated, isLoading, token, storage>>
          /\ callWrites' = 0
          /\ result' = Rejected("TypeError")
     ELSE setAndPersist(assign(get, [user |-> Null, isAuthenticated |-> FALSE,
                                     token |-> Null, isLoading |-> FALSE]))
  /\ UNCHANGED <<faulty, clock, pc, promise>>

logout ==
  /\ pc = "idle"
  /\ Called("logout")
  /\ args' = Undefined
  /\ setAndPersist(assign(get, [user |-> Null, isAuthenticated |-> FALSE,
                                token |-> Null, isLoading |-> FALSE]))
  /\ UNCHANGED <<faulty, clock, pc, promise>>

\* an investmentProfile that carries riskTolerance only
RiskOnly(risk) == [t |-> "object", riskTolerance |-> Str(risk)]

UpdateArgs ==
  IF faulty
  THEN {[name |-> Str(<<"Z">>)]}
  ELSE {[name |-> Str(<<"Z">>)],
        [avatar |-> Str(<<"p", "n", "g">>)],
        [id |-> Str(<<"9">>), investmentProfile |-> RiskOnly("high")]}

\* a merge that goes into investmentProfile instead of replacing it
spreadDeep(u, updatedUser) ==
  [k \in UserKeys |->
     IF k \notin DOMAIN updatedUser THEN u[k]
     ELSE IF k = "investmentProfile" /\ u[k].t = "object" /\ updatedUser[k].t = "object"
          THEN [f \in DOMAIN u[k] \cup DOMAIN updatedUser[k] |->
                  IF f \in DOMAIN updatedUser[k] THEN updatedUser[k][f] ELSE u[k][f]]
          ELSE updatedUser[k]]

\* { ...user, ...updatedUser }
spread(u, updatedUser) ==
  [k \in UserKeys |-> IF k \in DOMAIN updatedUser THEN updatedUser[k] ELSE u[k]]

\* updateUser without the if (user) guard: the fields become the user
updateUserNoGuard(updatedUser) ==
  /\ pc = "idle"
  /\ Called("updateUser")
  /\ args' = updatedUser
  /\ setAndPersist(assign(get, [user |->
        [k \in UserKeys |->
           IF k \in DOMAIN updatedUser THEN updatedUser[k]
           ELSE IF user = Null THEN Undefined ELSE user[k]]]))
  /\ UNCHANGED <<faulty, clock, pc, promise>>

updateUser(updatedUser) ==
  /\ pc = "idle"
  /\ Called("updateUser")
  /\ args' = updatedUser
  /\ IF user # Null
     THEN setAndPersist(assign(get, [user |-> spread(user, updatedUser)]))
     ELSE /\ UNCHANGED <<user, isAuthenticated, isLoading, token, storage>>
          /\ callWrites' = 0
          /\ result' = Fulfilled
  /\ UNCHANGED <<faulty, clock, pc, promise>>

\* setLoading that replaces the state instead of merging into it
setLoadingReplaces(loading) ==
  /\ pc = "idle"
  /\ Called("setLoading")
  /\ args' = Undefined
  /\ setAndPersist(assign(initialState, [isLoading |-> loading]))
  /\ UNCHANGED <<faulty, clock, pc, promise>>

setLoading(loading) ==
  /\ pc = "idle"
  /\ Called("setLoading")
  /\ args' = Undefined
  /\ setAndPersist(assign(get, [isLoading |-> loading]))
  /\ UNCHANGED <<faulty, clock, pc, promise>>

(***************************************************************************)
(* The caller of login/register resumes once its promise has settled       *)
(***************************************************************************)
\* a login that applies its session only when its promise resolves
awaitAppliesResult ==
  /\ pc = "idle"
  /\ promise.op # "none"
  /\ promise' = NoPromise
  /\ IF promise.op = "login" /\ promise.status = "fulfilled"
     THEN LET next == assign(get, [user |-> loginMockUser(promise.args, clock),
                                  isAuthenticated |-> TRUE, token |-> MockToken,
                                  isLoading |-> FALSE])
          IN setState(next) /\ storage' = setItem(next)
     ELSE UNCHANGED <<user, isAuthenticated, isLoading, token, storage>>
  /\ UNCHANGED <<faulty, pc, args, pre, result, callWrites, lastOp, prevOp, clock>>

\* the continuation of `await login(...)`: every set() of the call ran before
\* the promise was returned, so the resolution finds nothing left to apply
awaitResumes ==
  /\ pc = "idle"
  /\ promise.op # "none"
  /\ promise' = NoPromise
  /\ UNCHANGED <<user, isAuthenticated, isLoading, token, storage, faulty, pc,
                 args, pre, result, callWrites, lastOp, prevOp, clock>>

(***************************************************************************)
(* Environment: the clock advances; the page is reloaded                   *)
(***************************************************************************)
Tick ==
  /\ clock < Epoch + MaxTicks
  /\ clock' = clock + 1
  /\ UNCHANGED <<user, isAuthenticated, isLoading, token, storage, faulty, pc,
                 args, pre, result, callWrites, lastOp, prevOp, promise>>

\* a fresh store is created and hydrated from the slot
Reload ==
  /\ pc = "idle"
  /\ promise = NoPromise
  /\ Called("reload")
  /\ args' = SlotRead(storage)
  /\ result' = NoResult
  /\ LET h == hydrate(storage)
     IN /\ setState(h)
        /\ \E ok \in WriteOutcomes :
             IF hydrateWrites(storage) /\ ok
             THEN storage' = setItem(h) /\ callWrites' = 1
             ELSE storage' = storage /\ callWrites' = 0
  /\ UNCHANGED <<faulty, clock, pc, promise>>

\* the store driven directly, with no component mounted
Next ==
  \/ \E email \in LoginArgs : login(email) /\ UNCHANGED pageVars
  \/ loginTry /\ UNCHANGED pageVars
  \/ \E a \in RegisterArgs : register(a.name, a.email) /\ UNCHANGED pageVars
  \/ registerTry /\ UNCHANGED pageVars
  \/ logout /\ UNCHANGED pageVars
  \/ \E updatedUser \in UpdateArgs : updateUser(updatedUser) /\ UNCHANGED pageVars
  \/ \E loading \in BOOLEAN : setLoading(loading) /\ UNCHANGED pageVars
  \/ awaitResumes /\ UNCHANGED pageVars
  \/ Tick /\ UNCHANGED pageVars
  \/ Reload /\ UNCHANGED pageVars

Spec == Init /\ [][Next]_vars

\* the same store over a localStorage whose setItem may throw
InitQuota == InitWith(TRUE) /\ PagesInit

SpecQuota == InitQuota /\ [][Next]_vars

(***************************************************************************)
(* login called with every short string over a small alphabet              *)
(***************************************************************************)
EmailAlphabet == {"a", "@", "."}

AnyEmails ==
  {Str(s) : s \in UNION {[1..n -> EmailAlphabet] : n \in 0..MaxEmailLen}}

EmailsNext ==
  \/ \E email \in AnyEmails : login(email) /\ UNCHANGED pageVars
  \/ loginTry /\ UNCHANGED pageVars
  \/ awaitResumes /\ UNCHANGED pageVars

SpecEmails == Init /\ [][EmailsNext]_vars

(***************************************************************************)
(* apiClient: the request interceptor                                      *)
(***************************************************************************)
Bearer(t) == Str(<<"B", "e", "a", "r", "e", "r", " ">> \o t.v)

\* const token = localStorage.getItem('auth-token');
\* if (token) config.headers.Authorization = `Bearer ${token}`
interceptor(config) ==
  IF authTokenItem # Null /\ authTokenItem.v # <<>>
  THEN [config EXCEPT !.Authorization = Bearer(authTokenItem)]
  ELSE config

\* any call through apiClient, such as marketService.getMarketData()
request ==
  /\ pc = "idle"
  /\ requestHeaders' = interceptor([t |-> "headers", Authorization |-> Undefined])
  /\ UNCHANGED <<authTokenItem, storeVars, othersThanApi>>

ApiNext ==
  \/ \E email \in LoginArgs : login(email) /\ UNCHANGED pageVars
  \/ loginTry /\ UNCHANGED pageVars
  \/ \E a \in RegisterArgs : register(a.name, a.email) /\ UNCHANGED pageVars
  \/ registerTry /\ UNCHANGED pageVars
  \/ logout /\ UNCHANGED pageVars
  \/ awaitResumes /\ UNCHANGED pageVars
  \/ Reload /\ UNCHANGED pageVars
  \/ request

SpecApi == Init /\ [][ApiNext]_vars

(***************************************************************************)
(* LoginPage: validateForm, handleInputChange, handleSubmit                *)
(***************************************************************************)
IsSpace(c) == c \in {" ", "\t", "\n"}

\* String.prototype.trim
RECURSIVE trimStart(_)
trimStart(s) ==
  IF s # <<>> /\ IsSpace(Head(s)) THEN trimStart(Tail(s)) ELSE s

RECURSIVE trimEnd(_)
trimEnd(s) ==
  IF s # <<>> /\ IsSpace(s[Len(s)]) THEN trimEnd(SubSeq(s, 1, Len(s) - 1)) ELSE s

trim(s) == trimEnd(trimStart(s))

\* [^\s@]
Plain(c) == ~IsSpace(c) /\ c # "@"

\* /^[^\s@]+@[^\s@]+\.[^\s@]+$/.test(s): the '@' at i, the '.' at j
test(s) ==
  \E i \in 1..Len(s), j \in 1..Len(s) :
    /\ 1 < i /\ i + 1 < j /\ j < Len(s)
    /\ s[i] = "@"
    /\ s[j] = "."
    /\ \A k \in (1..Len(s)) \ {i} : Plain(s[k])

Message(m) == [t |-> "string", text |-> m]

\* a validateForm whose password check accepts any non-empty password
validateFormAnyPassword(fd) ==
  [email |->
     IF trim(fd.email.v) = <<>> THEN Message("Email is required")
     ELSE IF ~test(fd.email.v) THEN Message("Please enter a valid email address")
     ELSE Undefined,
   password |->
     IF fd.password.v = <<>> THEN Message("Password is required")
     ELSE Undefined,
   general |-> Undefined]

\* newErrors as validateForm builds it
validateForm(fd) ==
  [email |->
     IF trim(fd.email.v) = <<>> THEN Message("Email is required")
     ELSE IF ~test(fd.email.v) THEN Message("Please enter a valid email address")
     ELSE Undefined,
   password |->
     IF fd.password.v = <<>> THEN Message("Password is required")
     ELSE IF Len(fd.password.v) < 6
          THEN Message("Password must be at least 6 characters")
     ELSE Undefined,
   general |-> Undefined]

EmailWellFormed == Str(<<"a", "@", "x", ".", "c">>)
EmailBlank == Str(<<" ">>)
EmailTwoAts == Str(<<"a", "@", "@", "x", ".", "c">>)
FormEmails == {EmailEmpty, EmailBlank, EmailA, EmailWellFormed, EmailTwoAts}

PasswordShort == Str(<<"1", "2", "3", "4", "5">>)
PasswordLong == Str(<<"1", "2", "3", "4", "5", "6">>)
FormPasswords == {Str(<<>>), PasswordShort, PasswordLong}

FieldValues(name) == IF name = "email" THEN FormEmails ELSE FormPasswords

handleInputChange(name, value) ==
  /\ pc = "idle"
  /\ formData' = [formData EXCEPT ![name] = value]
  /\ errors' = IF errors[name] # Undefined
               THEN [errors EXCEPT ![name] = Undefined]
               ELSE errors
  /\ UNCHANGED <<isSubmitting, location, storeVars, othersThanLoginPage>>

\* the submit button is disabled while isSubmitting || isLoading
handleSubmit ==
  /\ pc = "idle"
  /\ ~(isSubmitting \/ isLoading)
  /\ LET newErrors == validateForm(formData)
     IN /\ errors' = newErrors
        /\ IF newErrors = NoErrors
           THEN /\ isSubmitting' = TRUE
                /\ login(formData.email)
           ELSE UNCHANGED <<isSubmitting, storeVars>>
  /\ UNCHANGED <<formData, location, othersThanLoginPage>>

\* handleSubmit after `await login(...)`: navigate, catch and finally
handleSubmitResumes ==
  /\ isSubmitting
  /\ awaitResumes
  /\ location' = IF promise.status = "fulfilled" THEN "/dashboard" ELSE location
  /\ errors' = IF promise.status = "rejected"
               THEN [general |-> Message(result.error), email |-> Undefined,
                     password |-> Undefined]
               ELSE errors
  /\ isSubmitting' = FALSE
  /\ UNCHANGED <<formData, othersThanLoginPage>>

\* the store driven through the login form; Dashboard's handleLogout ends
\* the session
LoginPageNext ==
  \/ \E name \in {"email", "password"} :
       \E value \in FieldValues(name) : handleInputChange(name, value)
  \/ handleSubmit
  \/ loginTry /\ UNCHANGED pageVars
  \/ handleSubmitResumes
  \/ logout /\ UNCHANGED pageVars

SpecLoginPage == Init /\ [][LoginPageNext]_vars

(***************************************************************************)
(* The guarded router (src/unnamed/part_001, src/src/App.tsx)              *)
(***************************************************************************)
PublicPaths == {"/", "/login", "/register"}
ProtectedPaths == {"/dashboard", "/market-data", "/portfolio"}
Paths == PublicPaths \cup ProtectedPaths \cup {"/forgot-password"}

Page(name) == [t |-> "page", name |-> name]
NavigateTo(to) == [t |-> "Navigate", to |-> to]

PublicPages == {"LandingPage", "LoginPage", "RegisterPage"}
ProtectedPages == {"InvestmentFormPage", "MarketDataPage", "PortfolioPage"}

PageAt(path) ==
  CASE path = "/" -> "LandingPage"
    [] path = "/login" -> "LoginPage"
    [] path = "/register" -> "RegisterPage"
    [] path = "/dashboard" -> "InvestmentFormPage"
    [] path = "/market-data" -> "MarketDataPage"
    [] path = "/portfolio" -> "PortfolioPage"

\* routes that render their page whatever isAuthenticated is
RoutesUnguarded(path, authenticated) ==
  IF path \in PublicPaths \cup ProtectedPaths
  THEN Page(PageAt(path))
  ELSE NavigateTo("/")

\* the element <Routes> renders at a path
Routes(path, authenticated) ==
  IF path \in PublicPaths
  THEN IF ~authenticated THEN Page(PageAt(path)) ELSE NavigateTo("/dashboard")
  ELSE IF path \in ProtectedPaths
  THEN IF authenticated THEN Page(PageAt(path)) ELSE NavigateTo("/login")
  ELSE NavigateTo("/")

element == Routes(location, isAuthenticated)

Shows(name) == element = Page(name)

\* <Navigate to=... replace />: its effect runs once the render is committed
Navigate ==
  /\ pc = "idle"
  /\ element.t = "Navigate"
  /\ location' = element.to
  /\ UNCHANGED <<storeVars, othersThanRouter>>

\* the user follows a link of the page on screen or enters a URL
visit(path) ==
  /\ pc = "idle"
  /\ element.t = "page"
  /\ location' = path
  /\ UNCHANGED <<storeVars, othersThanRouter>>

\* RegisterPage.handleSubmit after `await register(...)`
registerPageResumes ==
  /\ promise.op = "register"
  /\ awaitResumes
  /\ location' = IF promise.status = "fulfilled" THEN "/dashboard" ELSE location
  /\ UNCHANGED othersThanRouter

RouterFieldValues(name) ==
  IF name = "email" THEN {EmailA, EmailWellFormed} ELSE {PasswordLong}

RouterNext ==
  \/ \E path \in Paths : visit(path)
  \/ Navigate
  \/ \E name \in {"email", "password"} :
       \E value \in RouterFieldValues(name) :
         Shows("LoginPage") /\ handleInputChange(name, value)
  \/ Shows("LoginPage") /\ handleSubmit
  \/ loginTry /\ UNCHANGED pageVars
  \/ handleSubmitResumes
  \/ /\ Shows("RegisterPage")
     /\ register(FormObject(NameSam, EmailA), Undefined)
     /\ UNCHANGED pageVars
  \/ registerTry /\ UNCHANGED pageVars
  \/ registerPageResumes
  \/ element.t = "page" /\ element.name \in ProtectedPages
       /\ logout /\ UNCHANGED pageVars
  \/ Reload /\ UNCHANGED pageVars

\* React commits the render that follows a store change and runs the
\* effect of <Navigate> without waiting for anything
SpecRouter == Init /\ [][RouterNext]_vars /\ WF_vars(Navigate)

(***************************************************************************)
(* Dashboard: handleSendMessage and the handlers around it                 *)
(***************************************************************************)
\* prev.map(conv => conv.id === id ? {...conv, messages: [...conv.messages,
\* ...added]} : conv)
appendTo(convs, id, added) ==
  [i \in DOMAIN convs |->
     IF convs[i].id = id
     THEN [convs[i] EXCEPT !.messages = @ \o added]
     ELSE convs[i]]

MessageTexts == {<<>>, <<" ">>, <<"h", "i">>}

\* the message box is disabled while isTyping
setInputMessage(text) ==
  /\ ~isTyping
  /\ inputMessage' = text
  /\ UNCHANGED <<conversations, activeConversationId, isTyping, hybridRequest>>
  /\ UNCHANGED <<storeVars, othersThanDashboard>>

\* handleSendMessage up to `await submitHybridInput(...)`; the closure keeps
\* the activeConversationId of the render that sent the message
handleSendMessage ==
  /\ ~isTyping
  /\ \A c \in 1..Len(conversations) : Len(conversations[c].messages) < MaxMessages
  /\ IF trim(inputMessage) = <<>>
     THEN UNCHANGED dashboardVars
     ELSE /\ conversations' =
               appendTo(conversations, activeConversationId,
                        <<ChatMessage("user", "text")>>)
          /\ inputMessage' = <<>>
          /\ isTyping' = TRUE
          /\ hybridRequest' = [t |-> "pending", conversationId |-> activeConversationId]
          /\ UNCHANGED activeConversationId
  /\ UNCHANGED <<storeVars, othersThanDashboard>>

\* what submitHybridInput can resolve with
Responses == [ask : BOOLEAN, recommendations : BOOLEAN]

\* res.ask || (res.recommendations ? JSON.stringify(...) : 'No response')
firstReply(res) ==
  IF res.ask THEN "ask"
  ELSE IF res.recommendations THEN "recommendations" ELSE "No response"

\* handleSendMessage after the await: the reply, then the follow-up
\* question once more, then the summary line
hybridResolves(res) ==
  /\ hybridRequest # NoHybridRequest
  /\ conversations' =
       appendTo(conversations, hybridRequest.conversationId,
                <<ChatMessage("assistant", firstReply(res))>>
                  \o (IF res.ask THEN <<ChatMessage("assistant", "ask")>> ELSE <<>>)
                  \o (IF res.recommendations
                      THEN <<ChatMessage("assistant", "summary")>> ELSE <<>>))
  /\ isTyping' = FALSE
  /\ hybridRequest' = NoHybridRequest
  /\ UNCHANGED <<activeConversationId, inputMessage>>
  /\ UNCHANGED <<storeVars, othersThanDashboard>>

\* submitHybridInput rejects: handleSendMessage has no try/catch, the rest
\* of the handler never runs
hybridRejects ==
  /\ hybridRequest # NoHybridRequest
  /\ hybridRequest' = NoHybridRequest
  /\ UNCHANGED <<conversations, activeConversationId, inputMessage, isTyping>>
  /\ UNCHANGED <<storeVars, othersThanDashboard>>

createNewConversation ==
  /\ Len(conversations) < MaxConversations
  /\ LET id == Str(NumberToString(clock))
     IN /\ conversations' =
             <<[id |-> id, messages |-> <<ChatMessage("assistant", "hello")>>]>>
               \o conversations
        /\ activeConversationId' = id
  /\ UNCHANGED <<inputMessage, isTyping, hybridRequest>>
  /\ UNCHANGED <<storeVars, othersThanDashboard>>

\* a click on a thread of the sidebar
setActiveConversationId(id) ==
  /\ activeConversationId' = id
  /\ UNCHANGED <<conversations, inputMessage, isTyping, hybridRequest>>
  /\ UNCHANGED <<storeVars, othersThanDashboard>>

DashboardNext ==
  \/ \E text \in MessageTexts : setInputMessage(text)
  \/ handleSendMessage
  \/ \E res \in Responses : hybridResolves(res)
  \/ hybridRejects
  \/ createNewConversation
  \/ \E c \in 1..Len(conversations) : setActiveConversationId(conversations[c].id)
  \/ Tick /\ UNCHANGED pageVars

SpecDashboard == Init /\ [][DashboardNext]_vars

(***************************************************************************)
(* PortfolioPage: fetchPortfolio, handleBuyStock, handleSellStock,         *)
(* handleUpdateTotalValue                                                  *)
(***************************************************************************)
InFlight == portfolioCalls["getUserPortfolio"] + portfolioCalls["buyStock"]
              + portfolioCalls["sellStock"] + portfolioCalls["updatePortfolioValue"]
              + portfolioCalls["awaitedGetUserPortfolio"]

begins(kind) == [portfolioCalls EXCEPT ![kind] = @ + 1]
ends(kind) == [portfolioCalls EXCEPT ![kind] = @ - 1]

\* what getUserPortfolio resolves with
Investment(id, currentPrice, quantity) ==
  [id |-> id, currentPrice |-> currentPrice, quantity |-> quantity]

Portfolio(investments) == [t |-> "portfolio", investments |-> investments]

Portfolios == {Portfolio(<<>>), Portfolio(<<Investment(1, 1, 1)>>)}

\* how a service call settles
Outcomes == {"success", "failure", "rejected"}

\* the page shows only a spinner while loading && !portfolio
Interactive == ~(pageLoading /\ portfolio = Null)

\* fetchPortfolio(true) from the Refresh button, disabled while loading
fetchPortfolio ==
  /\ Interactive
  /\ ~pageLoading
  /\ InFlight < MaxCalls
  /\ pageLoading' = TRUE
  /\ pageError' = Null
  /\ portfolioCalls' = begins("getUserPortfolio")
  /\ UNCHANGED <<portfolio, transactionSuccess, showBuyForm, showSellForm>>
  /\ UNCHANGED <<storeVars, othersThanPortfolio>>

\* fetchPortfolio after its await: try, catch, finally
getUserPortfolioSettles(kind, data) ==
  /\ portfolioCalls[kind] > 0
  /\ portfolioCalls' = ends(kind)
  /\ IF data = Null
     THEN pageError' = Message("Failed to load portfolio data") /\ UNCHANGED portfolio
     ELSE portfolio' = data /\ UNCHANGED pageError
  /\ pageLoading' = FALSE
  /\ UNCHANGED <<transactionSuccess, showBuyForm, showSellForm>>
  /\ UNCHANGED <<storeVars, othersThanPortfolio>>

setShowBuyForm(show) ==
  /\ Interactive
  /\ showBuyForm' = show
  /\ UNCHANGED <<portfolio, pageLoading, pageError, transactionSuccess, showSellForm,
                 portfolioCalls>>
  /\ UNCHANGED <<storeVars, othersThanPortfolio>>

setShowSellForm(show) ==
  /\ Interactive
  /\ show => (portfolio # Null /\ Len(portfolio.investments) > 0)
  /\ showSellForm' = show
  /\ UNCHANGED <<portfolio, pageLoading, pageError, transactionSuccess, showBuyForm,
                 portfolioCalls>>
  /\ UNCHANGED <<storeVars, othersThanPortfolio>>

\* handleBuyStock / handleSellStock / handleUpdateTotalValue up to the await
begin(kind) ==
  /\ Interactive
  /\ InFlight < MaxCalls
  /\ pageLoading' = TRUE
  /\ pageError' = Null
  /\ transactionSuccess' = Null
  /\ portfolioCalls' = begins(kind)
  /\ UNCHANGED <<portfolio, showBuyForm, showSellForm>>
  /\ UNCHANGED <<storeVars, othersThanPortfolio>>

handleBuyStock == showBuyForm /\ begin("buyStock")

handleSellStock ==
  /\ showSellForm
  /\ portfolio # Null /\ Len(portfolio.investments) > 0
  /\ begin("sellStock")

handleUpdateTotalValue == portfolio # Null /\ begin("updatePortfolioValue")

\* handleBuyStock / handleSellStock after the await: on success
\* fetchPortfolio(true) is called and not awaited, it runs up to its own
\* await (setLoading(true), setError(null)); then finally setLoading(false)
tradeSettles(kind, outcome) ==
  /\ kind \in {"buyStock", "sellStock"}
  /\ portfolioCalls[kind] > 0
  /\ IF outcome = "success"
     THEN /\ transactionSuccess' = Message(IF kind = "buyStock" THEN "Successfully purchased stock!"
                                       ELSE "Successfully sold stock!")
          /\ showBuyForm' = (showBuyForm /\ kind # "buyStock")
          /\ showSellForm' = (showSellForm /\ kind # "sellStock")
          /\ pageError' = Null
          /\ portfolioCalls' =
               [ends(kind) EXCEPT !["getUserPortfolio"] = @ + 1]
     ELSE /\ pageError' = Message(IF kind = "buyStock" THEN "Failed to complete purchase"
                              ELSE "Failed to complete sale")
          /\ portfolioCalls' = ends(kind)
          /\ UNCHANGED <<transactionSuccess, showBuyForm, showSellForm>>
  /\ pageLoading' = FALSE
  /\ UNCHANGED portfolio
  /\ UNCHANGED <<storeVars, othersThanPortfolio>>

\* handleUpdateTotalValue after the await: on success it awaits
\* fetchPortfolio(true), so its finally runs after the refresh
updatePortfolioValueSettles(outcome) ==
  /\ portfolioCalls["updatePortfolioValue"] > 0
  /\ IF outcome = "success"
     THEN /\ transactionSuccess' = Message("Portfolio value updated successfully!")
          /\ pageLoading' = TRUE
          /\ pageError' = Null
          /\ portfolioCalls' =
               [ends("updatePortfolioValue") EXCEPT !["awaitedGetUserPortfolio"] = @ + 1]
     ELSE /\ pageError' = Message("Failed to update portfolio value")
          /\ pageLoading' = FALSE
          /\ portfolioCalls' = ends("updatePortfolioValue")
          /\ UNCHANGED transactionSuccess
  /\ UNCHANGED <<portfolio, showBuyForm, showSellForm>>
  /\ UNCHANGED <<storeVars, othersThanPortfolio>>

PortfolioNext ==
  \/ fetchPortfolio
  \/ \E kind \in {"getUserPortfolio", "awaitedGetUserPortfolio"} :
       \E data \in Portfolios \cup {Null} : getUserPortfolioSettles(kind, data)
  \/ \E show \in BOOLEAN : setShowBuyForm(show)
  \/ \E show \in BOOLEAN : setShowSellForm(show)
  \/ handleBuyStock
  \/ handleSellStock
  \/ handleUpdateTotalValue
  \/ \E kind \in {"buyStock", "sellStock"} :
       \E outcome \in Outcomes : tradeSettles(kind, outcome)
  \/ \E outcome \in Outcomes : updatePortfolioValueSettles(outcome)

SpecPortfolio == Init /\ [][PortfolioNext]_vars

(***************************************************************************)
(* PortfolioCharts (src/unnamed/part_004), rendered by PortfolioPage       *)
(***************************************************************************)
\* (investment.currentPrice || 0) * (investment.quantity || 0)
value(investment) == investment.currentPrice * investment.quantity

\* where a stable sort by falling value puts x among the sorted ones
RECURSIVE insert(_, _)
insert(x, sorted) ==
  IF sorted = <<>> THEN <<x>>
  ELSE IF value(Head(sorted)) >= value(x)
       THEN <<Head(sorted)>> \o insert(x, Tail(sorted))
       ELSE <<x>> \o sorted

\* array.sort((a, b) => value(b) - value(a)): stable, and in place
RECURSIVE sort(_)
sort(array) ==
  IF array = <<>> THEN <<>>
  ELSE insert(array[Len(array)], sort(SubSeq(array, 1, Len(array) - 1)))

slice(array, n) == SubSeq(array, 1, IF Len(array) < n THEN Len(array) ELSE n)

ids(array) == [i \in DOMAIN array |-> array[i].id]

\* the portfolios the backend can answer with: up to MaxHoldings
\* investments, numbered in the order the backend lists them
ChartPortfolios ==
  {Portfolio([i \in 1..n |-> Investment(i, p[i], q[i])]) :
     <<n, p, q>> \in UNION {{<<m, pp, qq>> : pp \in [1..m -> 1..2],
                                            qq \in [1..m -> 1..2]} :
                              m \in 0..MaxHoldings}}

\* one render of <PortfolioCharts portfolio={portfolio} />: Top Holdings
\* sorts portfolio.investments itself, Performance is evaluated after it
PortfolioCharts ==
  /\ portfolio # Null
  /\ Interactive
  /\ IF Len(portfolio.investments) = 0
     THEN /\ topHoldings' = <<>>
          /\ performanceBars' = <<>>
          /\ UNCHANGED portfolio
     ELSE LET sorted == sort(portfolio.investments)
          IN /\ portfolio' = [portfolio EXCEPT !.investments = sorted]
             /\ topHoldings' = ids(slice(sorted, 5))
             /\ performanceBars' = ids(slice(sorted, 7))
  /\ UNCHANGED <<pageLoading, pageError, transactionSuccess, showBuyForm,
                 showSellForm, portfolioCalls>>
  /\ UNCHANGED <<storeVars, othersThanCharts>>

ChartsNext ==
  \/ \E data \in ChartPortfolios : getUserPortfolioSettles("getUserPortfolio", data)
  \/ fetchPortfolio
  \/ PortfolioCharts

SpecCharts == Init /\ [][ChartsNext]_vars

(***************************************************************************)
(* Properties                                                              *)
(***************************************************************************)
Settled == pc = "idle" /\ result.status \in {"fulfilled", "rejected"}

\* a step in which the store action op is called
StepOf(op) == lastOp' = op /\ prevOp' = lastOp /\ pre' = get /\ clock' = clock

Anonymous == partialize(initialState)

\* C1: in every state a subscriber can observe, isAuthenticated is true
\* exactly when user and token are both present, and every step of login,
\* register and logout leaves user, isAuthenticated and token either all as
\* they were or all replaced by the operation's result.
SessionConsistent == isAuthenticated <=> (user # Null /\ token # Null)

AllOrNone ==
  /\ (pc = "idle" /\ pc' # "idle") => partialize(get') = partialize(get)
  /\ (pc = "login" /\ pc' = "idle") =>
       \/ partialize(get') = partialize(get)
       \/ /\ IsString(args)
          /\ partialize(get') = partialize(State(loginMockUser(args, clock), TRUE, FALSE, MockToken))
  /\ (pc = "register" /\ pc' = "idle") =>
       \/ partialize(get') = partialize(get)
       \/ partialize(get') =
            partialize(State(registerMockUser(args.name, args.email, clock), TRUE, FALSE, MockToken))
  /\ StepOf("logout") => partialize(get') = Anonymous

C1_ConsistentAndAtomic == []SessionConsistent /\ [][AllOrNone]_vars

C1_Witness ==
  /\ lastOp = "login"
  /\ result.status = "fulfilled"
  /\ ~pre.isAuthenticated
  /\ isAuthenticated

C3_LogoutClears ==
  lastOp = "logout" =>
    (~isAuthenticated /\ user = Null /\ token = Null /\ ~isLoading)

C3_Witness ==
  /\ lastOp = "logout"
  /\ pre.isAuthenticated
  /\ pre.isLoading
  /\ user = Null

\* C4: a login(e, password) that succeeds leaves user.email = e,
\* isAuthenticated true, a non-empty token and isLoading false, for every
\* email and every state before it.
C4_LoginSuccess ==
  (lastOp = "login" /\ result.status = "fulfilled") =>
    /\ user # Null
    /\ user.email = args
    /\ isAuthenticated
    /\ IsString(token)
    /\ Len(token.v) > 0
    /\ ~isLoading

C4_Witness ==
  /\ lastOp = "login"
  /\ result.status = "fulfilled"
  /\ pre.isAuthenticated
  /\ pre.user.email # args
  /\ user.email = args

\* C5: when login or register fails, user, isAuthenticated and token are
\* what they were before the call, isLoading is false and the error has been
\* thrown to the caller.
C5_FailureKeepsSession ==
  (lastOp \in {"login", "register"} /\ result.status = "rejected") =>
    /\ partialize(get) = partialize(pre)
    /\ ~isLoading
    /\ result.error # "none"

C5_Witness ==
  /\ lastOp = "login"
  /\ result.status = "rejected"
  /\ pre.isAuthenticated
  /\ isAuthenticated

\* C6 (as stated): a login call writes the slot exactly once when it
\* succeeds and not at all when it fails.
C6_OneWriteOrNone ==
  (lastOp = "login" /\ Settled) =>
    callWrites = (IF result.status = "fulfilled" THEN 1 ELSE 0)

\* C6 (amended): a login call writes the slot exactly twice, once after
\* each of its two set() calls, whether it succeeds or fails.
C6_TwoWrites == (lastOp = "login" /\ Settled) => callWrites = 2

C6_Witness ==
  /\ lastOp = "login"
  /\ Settled
  /\ result.status = "rejected"
  /\ callWrites = 2

\* C7 (as stated): no write to the slot happens while login or register has
\* set isLoading = true and has not yet applied its result.
C7_NoWriteMidOperation == pc \in {"login", "register"} => callWrites = 0

\* C7 (amended): the set({ isLoading: true }) that starts login or register
\* is followed by one write to the slot in the middle of the operation, and
\* that write stores user, isAuthenticated and token as they were before the
\* call.
C7_MidOperationWriteIsOldSnapshot ==
  pc \in {"login", "register"} =>
    /\ callWrites = 1
    /\ storage.kind = "json"
    /\ storage.value.state =
         [user |-> stringifyUser(pre.user),
          isAuthenticated |-> pre.isAuthenticated,
          token |-> pre.token]

C7_Witness ==
  /\ pc = "register"
  /\ isLoading
  /\ pre.isAuthenticated
  /\ callWrites = 1

\* C8: the persisted snapshot holds user, isAuthenticated and token and
\* nothing else, and whenever no operation is in progress these three equal
\* the in-memory state.
C8_SnapshotMatchesMemory ==
  storage.kind = "json" =>
    /\ DOMAIN storage.value.state = {"user", "isAuthenticated", "token"}
    /\ pc = "idle" =>
         storage.value.state =
           [user |-> stringifyUser(user),
            isAuthenticated |-> isAuthenticated,
            token |-> token]

C8_Witness ==
  /\ pc = "idle"
  /\ lastOp = "updateUser"
  /\ isAuthenticated
  /\ isLoading
  /\ storage.kind = "json"
  /\ user.avatar # Undefined

\* C9: a fresh store hydrated from the snapshot persisted for a state has
\* that state's user, isAuthenticated and token, and isLoading false even
\* when isLoading was true as the snapshot was written; so does the store
\* after a reload.
C9_RoundTrip ==
  /\ storage.kind = "json" =>
       hydrate(storage) = State(user, isAuthenticated, FALSE, token)
  /\ lastOp = "reload" =>
       get = State(pre.user, pre.isAuthenticated, FALSE, pre.token)

C9_Witness ==
  /\ lastOp = "reload"
  /\ pre.isLoading
  /\ pre.isAuthenticated
  /\ isAuthenticated
  /\ user.email = Undefined
  /\ ~isLoading

\* C10: a reload that follows logout() starts anonymous: user null,
\* isAuthenticated false, token null.
C10_ReloadAfterLogout ==
  (lastOp = "reload" /\ prevOp = "logout") =>
    (user = Null /\ ~isAuthenticated /\ token = Null)

C10_Witness ==
  /\ lastOp = "reload"
  /\ prevOp = "logout"
  /\ user = Null
  /\ storage.kind = "json"
  /\ storage.value.state.user = Null

\* C11: updateUser called while isAuthenticated is false changes nothing,
\* whatever its argument: user, isAuthenticated, token, isLoading and the
\* persisted snapshot are as before, and the call returns without an error.
C11_UpdateUserAnonymousNoOp ==
  [][(StepOf("updateUser") /\ ~isAuthenticated)
       => (get' = get /\ storage' = storage /\ result' = Fulfilled)]_vars

C11_Witness ==
  /\ lastOp = "updateUser"
  /\ ~pre.isAuthenticated
  /\ "id" \in DOMAIN args
  /\ user = Null
  /\ callWrites = 0

\* C12: updateUser called while authenticated replaces every top-level
\* field it is given (a given investmentProfile replaces the old one
\* wholesale), keeps every other field, leaves isAuthenticated and token as
\* they were, and the result is persisted.
C12_UpdateUserShallowMerge ==
  (lastOp = "updateUser" /\ pre.isAuthenticated) =>
    /\ user # Null
    /\ \A k \in UserKeys :
         user[k] = (IF k \in DOMAIN args THEN args[k] ELSE pre.user[k])
    /\ isAuthenticated
    /\ token = pre.token
    /\ storage.kind = "json"
    /\ storage.value.state.user = stringifyUser(user)

C12_Witness ==
  /\ lastOp = "updateUser"
  /\ pre.isAuthenticated
  /\ "investmentProfile" \in DOMAIN args
  /\ pre.user.investmentProfile = Profile("medium")
  /\ user.investmentProfile = RiskOnly("high")
  /\ user.email = pre.user.email

\* C13: no updateUser call changes user.id or user.createdAt.
C13_IdAndCreatedAtImmutable ==
  (lastOp = "updateUser" /\ pre.user # Null) =>
    (user.id = pre.user.id /\ user.createdAt = pre.user.createdAt)

\* C14: a successful register gives the user an id that differs from the id
\* of the user created before it.
C14_RegisterIdFresh ==
  (lastOp = "register" /\ result.status = "fulfilled" /\ pre.user # Null) =>
    user.id # pre.user.id

\* C15: a successful register called the way RegisterPage calls it, with
\* name n and email e, leaves user.name = n, user.email = e, isAuthenticated
\* true, a non-empty token and isLoading false.
C15_RegisterFromPage ==
  (lastOp = "register" /\ result.status = "fulfilled" /\ args.name.t = "object") =>
    /\ user.name = args.name.name
    /\ user.email = args.name.email
    /\ isAuthenticated
    /\ IsString(token)
    /\ Len(token.v) > 0
    /\ ~isLoading

\* C16: a logout() that follows a logout() changes nothing: user,
\* isAuthenticated, token, isLoading, the persisted snapshot and the way the
\* call returns are those of the first logout().
C16_LogoutIdempotent ==
  [][(StepOf("logout") /\ lastOp = "logout")
       => (get' = get /\ storage' = storage /\ result' = result)]_vars

C16_Witness ==
  /\ lastOp = "logout"
  /\ prevOp = "logout"
  /\ user = Null
  /\ ~isLoading
  /\ storage.kind = "json"

\* C17 (as stated): no action of the store other than login, register,
\* logout and updateUser changes user, isAuthenticated, token or isLoading.
C17_SetLoadingChangesNothing == [][StepOf("setLoading") => get' = get]_vars

\* C17 (amended): the store's fifth action, setLoading, changes isLoading and
\* leaves user, isAuthenticated and token as they were.
C17_SetLoadingKeepsSession ==
  [][StepOf("setLoading") => partialize(get') = partialize(get)]_vars

C17_Witness ==
  /\ lastOp = "setLoading"
  /\ pre.isAuthenticated
  /\ ~pre.isLoading
  /\ isLoading
  /\ isAuthenticated

\* C20: a store created over a missing 'auth-storage' key, or over a value
\* that is not well-formed JSON, is anonymous and not loading, and its
\* creation throws nothing.
C20_StartupFailsOpen ==
  (lastOp \in {"create", "reload"} /\ args.kind \in {"absent", "malformed"}) =>
    (get = initialState /\ result.status # "rejected")

C20_Witness ==
  /\ lastOp = "reload"
  /\ args.kind = "malformed"
  /\ storage.kind = "malformed"
  /\ user = Null
  /\ ~isLoading

\* the step in which the caller of login/register sees its promise settled
Resolves == promise.op # "none" /\ promise' = NoPromise

\* C18 (as stated): when a login resolves after a logout that was invoked
\* after it, the login wins: the state is authenticated with the login's
\* user.
C18_LaterResolvingWins ==
  [][(Resolves /\ promise.op = "login" /\ promise.status = "fulfilled"
        /\ lastOp = "logout")
       => (isAuthenticated' /\ user' # Null /\ user'.email = promise.args)]_vars

\* C18 (amended): operations are applied in the order they are invoked:
\* login runs all its set() calls before it returns its promise, so the
\* resolution of that promise changes neither the state nor the slot, and a
\* logout invoked after the login leaves the store anonymous although the
\* login resolves later.
C18_InvocationOrderWins ==
  [][Resolves
       => /\ get' = get
          /\ storage' = storage
          /\ lastOp = "logout"
               => (~isAuthenticated' /\ user' = Null /\ token' = Null)]_vars

C18_Witness ==
  /\ promise.op = "login"
  /\ promise.status = "fulfilled"
  /\ lastOp = "logout"
  /\ prevOp = "login"
  /\ pre.isAuthenticated
  /\ pre.user.email = promise.args
  /\ user = Null

\* a write to the slot failed during the call that has just settled
WriteFailed == result.status = "rejected" /\ result.error = "QuotaExceededError"

\* C19: when a write to the slot fails during login, register, logout or
\* updateUser, the transition in memory still completes in full: after a
\* login whose write failed the user and the token are set, isAuthenticated
\* is true and isLoading is false; after a register likewise; after a logout
\* the store is anonymous; after an updateUser the fields are merged.
C19_WriteFailureKeepsTransition ==
  (pc = "idle" /\ WriteFailed) =>
    /\ (lastOp = "login" /\ IsString(args)) =>
         /\ user # Null
         /\ user.email = args
         /\ token = MockToken
         /\ isAuthenticated
         /\ ~isLoading
    /\ lastOp = "register" =>
         /\ user # Null
         /\ user.email = args.email
         /\ token = MockToken
         /\ isAuthenticated
         /\ ~isLoading
    /\ lastOp = "logout" => (partialize(get) = Anonymous /\ ~isLoading)
    /\ (lastOp = "updateUser" /\ pre.user # Null) =>
         user = spread(pre.user, args)

\* the two typed results the operations are said to fail with
TypedErrors == {"AuthError", "ValidationError"}

\* C21: every failure raised inside login or register reaches the caller as
\* an AuthError or a ValidationError, never as another kind of error.
C21_FailuresAreTyped ==
  (pc = "idle" /\ lastOp \in {"login", "register"} /\ result.status = "rejected")
    => result.error \in TypedErrors

\* C22: login called with an empty email fails with a ValidationError and
\* leaves user, isAuthenticated and token as they were.
C22_EmptyEmailRejected ==
  (pc = "idle" /\ lastOp = "login" /\ args = EmailEmpty) =>
    /\ result.status = "rejected"
    /\ result.error = "ValidationError"
    /\ partialize(get) = partialize(pre)

\* an email with text, one '@', and a dot inside the text that follows it
WellFormedEmail(s) ==
  /\ Cardinality({k \in 1..Len(s) : s[k] = "@"}) = 1
  /\ \A k \in 1..Len(s) : ~IsSpace(s[k])
  /\ s[1] # "@"
  /\ \E j \in 1..Len(s) :
       /\ s[j] = "."
       /\ j < Len(s)
       /\ j > 1 /\ s[j - 1] # "@"
       /\ \E i \in 1..(j - 1) : s[i] = "@"

Submittable(fd) ==
  /\ fd.email.v # <<>>
  /\ WellFormedEmail(fd.email.v)
  /\ Len(fd.password.v) >= 6

\* C23: the login form invokes the store's login only with an email that is
\* non-empty and well-formed and a password of at least 6 characters, and
\* passes it the email of the form; submitting any other input leaves the
\* session state and the slot unchanged.
C23_FormGuardsLogin ==
  [][/\ (pc = "idle" /\ pc' = "login")
          => (Submittable(formData) /\ args' = formData.email)
     /\ (handleSubmit /\ ~Submittable(formData))
          => (get' = get /\ storage' = storage /\ lastOp' = lastOp)]_vars

C23_Witness ==
  /\ errors.password = Message("Password must be at least 6 characters")
  /\ errors.email = Undefined
  /\ formData.email = EmailWellFormed
  /\ formData.password = PasswordShort
  /\ isAuthenticated
  /\ lastOp = "login"
  /\ args = EmailWellFormed

\* n is where the local part of e ends: no '@' up to n, and an '@' (or the
\* end of an email without '@') right after it
LocalPartEnds(e, n) ==
  /\ \A k \in 1..n : e[k] # "@"
  /\ n = Len(e) \/ e[n + 1] = "@"

\* C24: after a successful login(email, password) the user's name is the
\* local part of the email, the text before its first '@' (the whole email
\* when it has none), for every email.
C24_NameIsLocalPart ==
  (lastOp = "login" /\ result.status = "fulfilled") =>
    /\ IsString(user.name)
    /\ Len(user.name.v) <= Len(args.v)
    /\ user.name.v = SubSeq(args.v, 1, Len(user.name.v))
    /\ LocalPartEnds(args.v, Len(user.name.v))

C24_Witness ==
  /\ lastOp = "login"
  /\ result.status = "fulfilled"
  /\ args = Str(<<"a", "@", "@">>)
  /\ user.name = Str(<<"a">>)
  /\ pre.user # Null
  /\ pre.user.name = Str(<<>>)

\* C25: whenever the session store holds a token, a request sent through
\* apiClient carries Authorization: Bearer <that token>.
C25_TokenAttached ==
  [][(request /\ token # Null) => requestHeaders'.Authorization = Bearer(token)]_vars

\* the page on screen agrees with isAuthenticated
RenderedAgrees ==
  element.t = "page" =>
    /\ element.name \in ProtectedPages => isAuthenticated
    /\ element.name \in PublicPages => ~isAuthenticated

\* C26: in the guarded router a protected page is rendered only while
\* isAuthenticated is true and a public page only while it is false, in
\* every reachable state; a protected path without a session leads to
\* /login (as after a logout) and a public path with a session leads to
\* /dashboard (as after a successful login).
C26_RouterGuards ==
  /\ []RenderedAgrees
  /\ (location \in ProtectedPaths /\ ~isAuthenticated) ~> (location = "/login")
  /\ (location \in PublicPaths /\ isAuthenticated) ~> (location = "/dashboard")

C26_Witness ==
  /\ location = "/login"
  /\ lastOp = "logout"
  /\ prevOp = "login"
  /\ pre.isAuthenticated
  /\ ~isAuthenticated
  /\ Shows("LoginPage")

\* the readings Date.now() can have given so far
ClockReadings == Epoch..clock

\* C27: login and register replace the user wholesale: whatever user was
\* authenticated before, the resulting user is the freshly built record (the
\* call's email and name, a fresh id and createdAt, no avatar, the default
\* investmentProfile), and no field of the previous user survives.
C27_UserReplacedWholesale ==
  (lastOp \in {"login", "register"} /\ result.status = "fulfilled") =>
    /\ user.avatar = Undefined
    /\ user.investmentProfile = Profile("medium")
    /\ \E now \in ClockReadings :
         user = IF lastOp = "login"
                THEN [id |-> Str(<<"1">>), email |-> args,
                      name |-> Str(SplitFirst(args.v, "@")), avatar |-> Undefined,
                      createdAt |-> toISOString(now),
                      investmentProfile |-> Profile("medium")]
                ELSE [id |-> Str(NumberToString(now)), email |-> args.email,
                      name |-> args.name, avatar |-> Undefined,
                      createdAt |-> toISOString(now),
                      investmentProfile |-> Profile("medium")]

C27_Witness ==
  /\ lastOp = "register"
  /\ result.status = "fulfilled"
  /\ prevOp = "updateUser"
  /\ pre.user # Null
  /\ pre.user.avatar # Undefined
  /\ user.avatar = Undefined

\* the messages of the threads with the given id
MessagesOf(convs, id) ==
  [i \in {j \in DOMAIN convs : convs[j].id = id} |-> convs[i].messages]

\* the step in which the awaited submitHybridInput call settles
HybridSettles == hybridRequest # NoHybridRequest /\ hybridRequest' = NoHybridRequest

\* C28: every non-blank message sent is followed by exactly one assistant
\* reply, appended to the conversation that was active when it was sent,
\* after which isTyping is false, whether the backend answers with a
\* follow-up question, with recommendations, or fails.
C28_ExactlyOneReply ==
  [][HybridSettles =>
       /\ ~isTyping'
       /\ \A i \in DOMAIN conversations :
            IF conversations[i].id = hybridRequest.conversationId
            THEN /\ Len(conversations'[i].messages)
                      = Len(conversations[i].messages) + 1
                 /\ conversations'[i].messages[Len(conversations'[i].messages)].sender
                      = "assistant"
            ELSE conversations'[i] = conversations[i]]_vars

\* C29: on PortfolioPage loading is true whenever a request started by
\* fetchPortfolio, handleBuyStock, handleSellStock or handleUpdateTotalValue
\* is in flight, the refresh after a successful buy or sell included.
C29_LoadingWhileInFlight == InFlight > 0 => pageLoading

\* C30: rendering PortfolioCharts does not change the portfolio it is given:
\* portfolio.investments keeps its elements in their order, and the
\* Performance chart shows the first investments of that original order.
C30_RenderKeepsPortfolio ==
  [][PortfolioCharts =>
       /\ portfolio'.investments = portfolio.investments
       /\ performanceBars' = ids(slice(portfolio.investments, 7))]_vars
====
